---- MODULE Spec2Model ----
(***************************************************************************)
(* Model of backend/backend_app.py: a Flask application that keeps a list  *)
(* of blog posts (POSTS) in memory and serves five handlers over it:       *)
(* get_posts, add_post, delete_post, update_post and search_posts.         *)
(*                                                                         *)
(* Text (titles, contents, search filters) is a sequence of code points,   *)
(* so that str.lower(), the substring test and the ordering of strings are *)
(* computed as Python computes them.  Names of parameters and of fields    *)
(* are TLA+ strings.  An optional value (request.args.get, a JSON body     *)
(* that may be null) is None or Some(v).                                   *)
(***************************************************************************)
EXTENDS Integers, Sequences, FiniteSets, TLC

VARIABLES POSTS, req, resp, assigned

vars == <<POSTS, req, resp, assigned>>

(***************************************************************************)
(* Bounds of the model.                                                    *)
(***************************************************************************)
\* the longest list of posts the model lets the handlers build
MaxPosts == 3
\* the largest id the model lets add_post assign, and the largest post_id
\* a request names
MaxId == 3

(***************************************************************************)
(* Optional values and text.                                               *)
(***************************************************************************)
None == <<>>
Some(v) == <<v>>

\* "First post"
FirstTitle == <<70, 105, 114, 115, 116, 32, 112, 111, 115, 116>>
\* "This is the first post."
FirstContent == <<84, 104, 105, 115, 32, 105, 115, 32, 116, 104, 101, 32,
                  102, 105, 114, 115, 116, 32, 112, 111, 115, 116, 46>>
\* "Second post"
SecondTitle == <<83, 101, 99, 111, 110, 100, 32, 112, 111, 115, 116>>
\* "This is the second post."
SecondContent == <<84, 104, 105, 115, 32, 105, 115, 32, 116, 104, 101, 32,
                   115, 101, 99, 111, 110, 100, 32, 112, 111, 115, 116, 46>>

\* the texts a request body carries: "" and "post"
EmptyText == <<>>
PayloadTexts == {EmptyText, <<112, 111, 115, 116>>}

\* the values of the query parameter title of /api/posts/search:
\* absent, "", "POST", "fIRST"
SearchTitleArgs ==
    {None, Some(EmptyText), Some(<<80, 79, 83, 84>>), Some(<<102, 73, 82, 83, 84>>)}
\* the values of the query parameter content of /api/posts/search:
\* absent, "", "this IS"
SearchContentArgs ==
    {None, Some(EmptyText), Some(<<116, 104, 105, 115, 32, 73, 83>>)}

\* the values of the query parameter sort: absent, "", the two allowed
\* fields and a field that is not allowed
SortArgs == {None, Some(""), Some("title"), Some("content"), Some("id")}
\* the values of the query parameter direction
DirectionArgs == {None, Some("asc"), Some("desc"), Some("up")}

\* the JSON objects a request body carries: any of the keys title and
\* content with a text value, or only a key the handlers do not read
PayloadObjects ==
    UNION {[D -> PayloadTexts] : D \in SUBSET {"title", "content"}}
        \cup {[key \in {"author"} |-> EmptyText]}
\* request.get_json() / request.json: None for the body null, else the object
Payloads == {None} \cup {Some(o) : o \in PayloadObjects}
\* the bodies of the PUT requests: those that carry no empty content
UpdatePayloads ==
    {p \in Payloads : p = None \/ "content" \notin DOMAIN p[1] \/ p[1]["content"] # EmptyText}

\* Python's truth value of an optional string parameter (None and "" are false)
truthy(arg) == arg # None /\ arg[1] # ""
\* Python's truth value of an optional text (None and "" are false)
truthyText(arg) == arg # None /\ arg[1] # EmptyText

\* str.lower() on ASCII text
lower(s) == [i \in 1..Len(s) |-> IF s[i] >= 65 /\ s[i] <= 90 THEN s[i] + 32 ELSE s[i]]

\* a < b on Python strings: lexicographic by code point
RECURSIVE StrLess(_, _)
StrLess(a, b) ==
    IF b = <<>> THEN FALSE
    ELSE IF a = <<>> THEN TRUE
    ELSE IF a[1] < b[1] THEN TRUE
    ELSE IF a[1] > b[1] THEN FALSE
    ELSE StrLess(Tail(a), Tail(b))

\* needle in hay on Python strings
contains(needle, hay) ==
    \E i \in 0..(Len(hay) - Len(needle)) :
        SubSeq(hay, i + 1, i + Len(needle)) = needle

RECURSIVE Reverse(_)
Reverse(s) == IF s = <<>> THEN <<>> ELSE Append(Reverse(Tail(s)), Head(s))

\* ', '.join(names)
RECURSIVE join(_)
join(names) ==
    IF names = <<>> THEN ""
    ELSE IF Len(names) = 1 THEN names[1]
    ELSE names[1] \o ", " \o join(Tail(names))

(***************************************************************************)
(* The list of posts and the requests.                                     *)
(***************************************************************************)
Post(id, title, content) == [id |-> id, title |-> title, content |-> content]

\* POSTS as the module defines it
SeedPosts == <<Post(1, FirstTitle, FirstContent), Post(2, SecondTitle, SecondContent)>>

\* a request: the handler it is routed to, the id of its path, its JSON
\* body and its query parameters (None where the route has none)
Request(op, post_id, payload, sort, direction, title, content) ==
    [op |-> op, post_id |-> post_id, payload |-> payload, sort |-> sort,
     direction |-> direction, title |-> title, content |-> content]

\* jsonify(value), status
Response(status, body) == [status |-> status, body |-> body]

\* no request is being handled
NoRequest == Request("none", 0, None, None, None, None, None)
NoResponse == Response(0, None)

\* an exception no handler catches: Flask answers 500
ServerError(exception) == Response(500, [exception |-> exception])

\* the lists the model lets a handler leave behind
Bounded(posts) ==
    /\ Len(posts) <= MaxPosts
    /\ \A i \in 1..Len(posts) : posts[i].id <= MaxId

(***************************************************************************)
(* get_posts                                                               *)
(***************************************************************************)
\* list.sort puts an element behind the elements whose key is not greater
RECURSIVE sort_insert(_, _, _)
sort_insert(sorted, post, field) ==
    IF sorted = <<>> THEN <<post>>
    ELSE IF StrLess(post[field], Head(sorted)[field]) THEN <<post>> \o sorted
    ELSE <<Head(sorted)>> \o sort_insert(Tail(sorted), post, field)

\* a stable ascending sort by post[field]
RECURSIVE stable_sort(_, _)
stable_sort(posts, field) ==
    IF posts = <<>> THEN <<>>
    ELSE sort_insert(stable_sort(SubSeq(posts, 1, Len(posts) - 1), field),
                     posts[Len(posts)], field)

\* the mutant of list_sort that ignores reverse
list_sort_ascending(posts, field, reverse) == stable_sort(posts, field)

\* list.sort(key=lambda post: post[field], reverse=reverse): stable, and with
\* reverse the list is reversed before and after the ascending sort
list_sort(posts, field, reverse) ==
    IF reverse THEN Reverse(stable_sort(Reverse(posts), field))
    ELSE stable_sort(posts, field)

\* the mutant of should_sort that sorts as soon as a field is given
should_sort_by_field(sort_field, sort_direction) == truthy(sort_field)

\* if sort_field and sort_direction
should_sort(sort_field, sort_direction) == truthy(sort_field) /\ truthy(sort_direction)

get_posts_response(posts, sort_field, sort_direction) ==
    IF truthy(sort_field) /\ sort_field[1] \notin {"title", "content"}
    THEN Response(400, [error |-> "Invalid sort field. Allowed values: title, content"])
    ELSE IF truthy(sort_direction) /\ sort_direction[1] \notin {"asc", "desc"}
    THEN Response(400, [error |-> "Invalid sort direction. Allowed values: asc, desc"])
    ELSE IF should_sort(sort_field, sort_direction)
    THEN Response(200, list_sort(posts, sort_field[1], sort_direction = Some("desc")))
    ELSE Response(200, posts)

get_posts(sort_field, sort_direction) ==
    /\ req = NoRequest
    /\ req' = Request("get_posts", 0, None, sort_field, sort_direction, None, None)
    /\ resp' = get_posts_response(POSTS, sort_field, sort_direction)
    /\ UNCHANGED <<POSTS, assigned>>

(***************************************************************************)
(* add_post                                                                *)
(***************************************************************************)
\* not post: the body null and the empty object are false
falsy(payload) == payload = None \/ DOMAIN payload[1] = {}

\* the mutant of is_missing that accepts an empty value
is_missing_key(post, field) == field \notin DOMAIN post

\* field not in post or not post[field]
is_missing(post, field) == field \notin DOMAIN post \/ post[field] = EmptyText

required_fields == <<"title", "content">>

missing_fields(post) == SelectSeq(required_fields, LAMBDA field : is_missing(post, field))

\* POSTS[-1]['id'] + 1 raises IndexError on the empty list
Raise == None

\* the mutant of new_id that starts again at 1 on the empty list
new_id_or_first(posts) ==
    IF posts = <<>> THEN Some(1) ELSE Some(posts[Len(posts)].id + 1)

\* the mutant of new_id that counts the posts
new_id_by_length(posts) ==
    IF posts = <<>> THEN Raise ELSE Some(Len(posts) + 1)

\* POSTS[-1]['id'] + 1
new_id(posts) ==
    IF posts = <<>> THEN Raise ELSE Some(posts[Len(posts)].id + 1)

add_post(payload) ==
    /\ req = NoRequest
    /\ req' = Request("add_post", 0, payload, None, None, None, None)
    /\ IF falsy(payload)
       THEN /\ resp' = Response(400, [error |-> "No data provided"])
            /\ UNCHANGED <<POSTS, assigned>>
       ELSE LET post == payload[1]
                missing == missing_fields(post)
            IN IF missing # <<>>
               THEN /\ resp' = Response(400,
                               [error |-> "Missing or empty fields: " \o join(missing)])
                    /\ UNCHANGED <<POSTS, assigned>>
               ELSE IF new_id(POSTS) = Raise
               THEN /\ resp' = ServerError("IndexError")
                    /\ UNCHANGED <<POSTS, assigned>>
               ELSE LET new_post == Post(new_id(POSTS)[1], post["title"], post["content"])
                    IN /\ POSTS' = Append(POSTS, new_post)
                       /\ assigned' = assigned \cup {new_post.id}
                       /\ resp' = Response(201, new_post)
    /\ Bounded(POSTS')

(***************************************************************************)
(* delete_post                                                             *)
(***************************************************************************)
\* the mutant of find_post that takes the last post with the id
find_last_post(posts, post_id) ==
    IF \E i \in 1..Len(posts) : posts[i].id = post_id
    THEN CHOOSE i \in 1..Len(posts) :
            /\ posts[i].id = post_id
            /\ \A j \in (i + 1)..Len(posts) : posts[j].id # post_id
    ELSE 0

\* for post in POSTS: if post['id'] == post_id: the index of the first
\* post with the id, 0 when the loop ends without one
find_post(posts, post_id) ==
    IF \E i \in 1..Len(posts) : posts[i].id = post_id
    THEN CHOOSE i \in 1..Len(posts) :
            /\ posts[i].id = post_id
            /\ \A j \in 1..(i - 1) : posts[j].id # post_id
    ELSE 0

\* del POSTS[index]
del(posts, index) == SubSeq(posts, 1, index - 1) \o SubSeq(posts, index + 1, Len(posts))

not_found(post_id) ==
    Response(404, [error |-> "Post with id " \o ToString(post_id) \o " not found."])

delete_post(post_id) ==
    /\ req = NoRequest
    /\ req' = Request("delete_post", post_id, None, None, None, None, None)
    /\ LET index == find_post(POSTS, post_id)
       IN IF index # 0
          THEN /\ POSTS' = del(POSTS, index)
               /\ resp' = Response(200,
                     [message |-> "Post with id " \o ToString(post_id)
                                  \o " has been deleted successfully."])
          ELSE /\ resp' = not_found(post_id)
               /\ UNCHANGED POSTS
    /\ UNCHANGED assigned

(***************************************************************************)
(* update_post                                                             *)
(***************************************************************************)
\* the mutant of dict_get that keeps the old value for an empty one
dict_get_nonempty(json, key, default) ==
    IF key \in DOMAIN json /\ json[key] # EmptyText THEN json[key] ELSE default

\* request.json.get(key, default)
dict_get(json, key, default) == IF key \in DOMAIN json THEN json[key] ELSE default

update_post(post_id, payload) ==
    /\ req = NoRequest
    /\ req' = Request("update_post", post_id, payload, None, None, None, None)
    /\ LET index == find_post(POSTS, post_id)
       IN IF index = 0
          THEN /\ resp' = not_found(post_id)
               /\ UNCHANGED POSTS
          ELSE IF payload = None
          \* request.json is None and has no get
          THEN /\ resp' = ServerError("AttributeError")
               /\ UNCHANGED POSTS
          ELSE LET post == POSTS[index]
                   new_title == dict_get(payload[1], "title", post.title)
                   new_content == dict_get(payload[1], "content", post.content)
                   updated_post == Post(post.id, new_title, new_content)
               IN /\ POSTS' = Append([POSTS EXCEPT ![index].title = new_title,
                                                   ![index].content = new_content],
                                     updated_post)
                  /\ resp' = Response(200, updated_post)
    /\ UNCHANGED assigned
    /\ Bounded(POSTS')

(***************************************************************************)
(* search_posts                                                            *)
(***************************************************************************)
\* the mutant of matches that wants both filters to match
matches_both(post, search_title, search_content) ==
    /\ truthyText(search_title) /\ contains(lower(search_title[1]), lower(post.title))
    /\ truthyText(search_content) /\ contains(lower(search_content[1]), lower(post.content))

matches(post, search_title, search_content) ==
    \/ truthyText(search_title) /\ contains(lower(search_title[1]), lower(post.title))
    \/ truthyText(search_content) /\ contains(lower(search_content[1]), lower(post.content))

search_posts(search_title, search_content) ==
    /\ req = NoRequest
    /\ req' = Request("search_posts", 0, None, None, None, search_title, search_content)
    /\ resp' = Response(200,
                 SelectSeq(POSTS, LAMBDA post : matches(post, search_title, search_content)))
    /\ UNCHANGED <<POSTS, assigned>>

(***************************************************************************)
(* The application.                                                        *)
(***************************************************************************)
\* the response is sent and the server takes the next request
send_response ==
    /\ req # NoRequest
    /\ req' = NoRequest
    /\ resp' = NoResponse
    /\ UNCHANGED <<POSTS, assigned>>

Init ==
    /\ POSTS = SeedPosts
    /\ req = NoRequest
    /\ resp = NoResponse
    /\ assigned = {SeedPosts[i].id : i \in 1..Len(SeedPosts)}

Next ==
    \/ \E sort_field \in SortArgs, sort_direction \in DirectionArgs :
          get_posts(sort_field, sort_direction)
    \/ \E payload \in Payloads : add_post(payload)
    \/ \E post_id \in 1..MaxId : delete_post(post_id)
    \/ \E post_id \in 1..MaxId, payload \in UpdatePayloads : update_post(post_id, payload)
    \/ \E search_title \in SearchTitleArgs, search_content \in SearchContentArgs :
          search_posts(search_title, search_content)
    \/ send_response

Spec == Init /\ [][Next]_vars

(***************************************************************************)
(* Vocabulary of the properties, stated on the lists and the requests      *)
(* without the handlers' helpers.                                          *)
(***************************************************************************)
\* the id occurs in the list
Occurs(posts, post_id) == \E i \in 1..Len(posts) : posts[i].id = post_id

\* i is the position of the first post with the id
IsFirstMatch(posts, post_id, i) ==
    /\ i \in 1..Len(posts)
    /\ posts[i].id = post_id
    /\ \A j \in 1..(i - 1) : posts[j].id # post_id

\* the body is an object that has the field with a non-empty text
HasText(payload, field) ==
    /\ payload # None
    /\ field \in DOMAIN payload[1]
    /\ Len(payload[1][field]) > 0

\* how often the post occurs in the list
Count(posts, post) == Cardinality({i \in 1..Len(posts) : posts[i] = post})

\* the post is in the list
In(posts, post) == \E i \in 1..Len(posts) : posts[i] = post

\* one list is the other in some order
IsPermutation(a, b) ==
    /\ Len(a) = Len(b)
    /\ \A i \in 1..Len(b) : Count(a, b[i]) = Count(b, b[i])

\* the list is non-decreasing by the field's text
NonDecreasing(posts, field) ==
    \A i \in 1..(Len(posts) - 1) : ~StrLess(posts[i + 1][field], posts[i][field])

\* the list is non-increasing by the field's text
NonIncreasing(posts, field) ==
    \A i \in 1..(Len(posts) - 1) : ~StrLess(posts[i][field], posts[i + 1][field])

\* a query parameter was given with a value
Supplied(arg) == arg # None /\ Len(arg[1]) > 0

\* two code points are the same letter of ASCII up to case, or are equal
SameLetter(x, y) ==
    \/ x = y
    \/ x >= 65 /\ x <= 90 /\ y = x + 32
    \/ y >= 65 /\ y <= 90 /\ x = y + 32

\* the filter was given, is not empty and occurs in the text up to case
FilterHits(filter, text) ==
    /\ filter # None
    /\ Len(filter[1]) > 0
    /\ \E k \in 0..(Len(text) - Len(filter[1])) :
          \A i \in 1..Len(filter[1]) : SameLetter(filter[1][i], text[k + i])

\* the posts of a list that a request for title and content filters selects
Selected(posts, title, content) ==
    SelectSeq(posts, LAMBDA post :
        FilterHits(title, post.title) \/ FilterHits(content, post.content))

(***************************************************************************)
(* C1: no two posts of the list have the same id.                          *)
(* update_post appends a second record with the id it updates, so this is  *)
(* violated.                                                               *)
(***************************************************************************)
C1_UniqueIds ==
    \A i, j \in 1..Len(POSTS) : i # j => POSTS[i].id # POSTS[j].id

(***************************************************************************)
(* C2: a successful add_post never assigns an id that a seed post or an    *)
(* earlier created post was given, deleted or not.                         *)
(* The id is that of the last post plus one, so deleting the last post     *)
(* hands its id out again: this is violated.                               *)
(***************************************************************************)
C2_NoIdReuse ==
    [][(req'.op = "add_post" /\ resp'.status = 201) => resp'.body.id \notin assigned]_vars

(***************************************************************************)
(* C3: on a non-empty list, add_post with non-empty title and content      *)
(* answers 201 with the post whose id is the last post's id plus one, and  *)
(* the list afterwards is the list before with that post appended.         *)
(***************************************************************************)
C3_CreateAppends ==
    [][(/\ req'.op = "add_post"
        /\ POSTS # <<>>
        /\ HasText(req'.payload, "title")
        /\ HasText(req'.payload, "content"))
       => /\ resp'.status = 201
          /\ resp'.body = [id |-> POSTS[Len(POSTS)].id + 1,
                           title |-> req'.payload[1]["title"],
                           content |-> req'.payload[1]["content"]]
          /\ POSTS' = Append(POSTS, resp'.body)]_vars

\* a post was created whose id is not the number of posts
C3_Witness ==
    /\ req.op = "add_post"
    /\ resp.status = 201
    /\ POSTS[Len(POSTS)] = resp.body
    /\ resp.body.id # Len(POSTS)

(***************************************************************************)
(* C4: add_post without a body or with the empty object answers 400 "No    *)
(* data provided"; with an object in which title or content is missing or  *)
(* empty it answers 400 with a message that lists all such fields, title   *)
(* before content; neither changes the list.                               *)
(***************************************************************************)
C4_CreateRejects ==
    [][req'.op = "add_post" =>
        LET payload == req'.payload
            empty == payload = None \/ DOMAIN payload[1] = {}
            noTitle == ~HasText(payload, "title")
            noContent == ~HasText(payload, "content")
        IN /\ empty =>
                /\ resp' = [status |-> 400, body |-> [error |-> "No data provided"]]
                /\ POSTS' = POSTS
           /\ (~empty /\ (noTitle \/ noContent)) =>
                /\ resp'.status = 400
                /\ resp'.body =
                     [error |-> IF noTitle /\ noContent
                                THEN "Missing or empty fields: title, content"
                                ELSE IF noTitle
                                THEN "Missing or empty fields: title"
                                ELSE "Missing or empty fields: content"]
                /\ POSTS' = POSTS]_vars

\* a body with an empty title and a content was rejected
C4_Witness ==
    /\ req.op = "add_post"
    /\ req.payload # None
    /\ DOMAIN req.payload[1] = {"title", "content"}
    /\ req.payload[1]["title"] = EmptyText
    /\ req.payload[1]["content"] # EmptyText
    /\ resp = [status |-> 400, body |-> [error |-> "Missing or empty fields: title"]]

(***************************************************************************)
(* C5: delete_post of an id that occurs answers 200 and removes the first  *)
(* post with the id and nothing else, the other posts keeping their order; *)
(* of an id that does not occur it answers 404 and changes nothing.        *)
(***************************************************************************)
C5_Delete ==
    [][req'.op = "delete_post" =>
        IF Occurs(POSTS, req'.post_id)
        THEN /\ resp'.status = 200
             /\ Len(POSTS') = Len(POSTS) - 1
             /\ \E i \in 1..Len(POSTS) :
                   /\ IsFirstMatch(POSTS, req'.post_id, i)
                   /\ \A j \in 1..Len(POSTS') :
                         POSTS'[j] = IF j < i THEN POSTS[j] ELSE POSTS[j + 1]
        ELSE /\ resp'.status = 404
             /\ POSTS' = POSTS]_vars

\* a post was deleted whose id a later post of the list also has
C5_Witness ==
    /\ req.op = "delete_post"
    /\ resp.status = 200
    /\ Len(POSTS) = 2
    /\ POSTS[1].id # req.post_id
    /\ POSTS[2].id = req.post_id

C7_SortedList ==
    [][(/\ req'.op = "get_posts"
        /\ req'.sort \in {Some("title"), Some("content")}
        /\ req'.direction \in {Some("asc"), Some("desc")})
       => /\ resp'.status = 200
          /\ IsPermutation(resp'.body, POSTS)
          /\ IF req'.direction = Some("asc")
             THEN NonDecreasing(resp'.body, req'.sort[1])
             ELSE NonIncreasing(resp'.body, req'.sort[1])
          /\ POSTS' = POSTS]_vars

\* three posts were listed by title, descending, in another order than the
\* list's and than the ascending one
C7_Witness ==
    /\ req.op = "get_posts"
    /\ req.sort = Some("title")
    /\ req.direction = Some("desc")
    /\ resp.status = 200
    /\ Len(POSTS) = 3
    /\ resp.body # POSTS
    /\ ~NonDecreasing(resp.body, "title")

C9_Search ==
    [][req'.op = "search_posts" =>
        LET byTitle == Selected(POSTS, req'.title, None)
            byContent == Selected(POSTS, None, req'.content)
        IN /\ resp' = [status |-> 200,
                       body |-> Selected(POSTS, req'.title, req'.content)]
           /\ \A i \in 1..Len(POSTS) :
                 In(resp'.body, POSTS[i])
                 <=> In(byTitle, POSTS[i]) \/ In(byContent, POSTS[i])
           /\ (~Supplied(req'.title) /\ ~Supplied(req'.content)) => resp'.body = <<>>
           /\ POSTS' = POSTS]_vars

\* a search with both filters found a post by its title alone, one by its
\* content alone, and left one out
C9_Witness ==
    /\ req.op = "search_posts"
    /\ Supplied(req.title)
    /\ Supplied(req.content)
    /\ resp.status = 200
    /\ Len(resp.body) < Len(POSTS)
    /\ \E i \in 1..Len(resp.body) :
          /\ FilterHits(req.title, resp.body[i].title)
          /\ ~FilterHits(req.content, resp.body[i].content)
    /\ \E i \in 1..Len(resp.body) :
          /\ ~FilterHits(req.title, resp.body[i].title)
          /\ FilterHits(req.content, resp.body[i].content)

(***************************************************************************)
(* C10: the empty list can be reached, and once the list is empty it stays *)
(* empty: add_post with non-empty title and content fails with an          *)
(* exception (500) and update_post and delete_post answer 404.             *)
(***************************************************************************)
C10_EmptyAbsorbing ==
    [][POSTS = <<>> =>
        /\ POSTS' = <<>>
        /\ (/\ req'.op = "add_post"
            /\ HasText(req'.payload, "title")
            /\ HasText(req'.payload, "content")) => resp'.status = 500
        /\ req'.op \in {"update_post", "delete_post"} => resp'.status = 404]_vars

\* every post was deleted and a valid add_post then failed
C10_Witness ==
    /\ POSTS = <<>>
    /\ req.op = "add_post"
    /\ HasText(req.payload, "title")
    /\ HasText(req.payload, "content")
    /\ resp.status = 500

====
